---- MODULE Spec2Model ----
(***************************************************************************)
(* Model of the students service of nestjs-test:                           *)
(*   src/src/students/students.service.ts    (StudentsService)             *)
(*   src/src/students/students.controller.ts (StudentsController)          *)
(*                                                                         *)
(* Requests are handled on one event loop.  A handler runs uninterrupted   *)
(* until it awaits the remote fetch (_fetchStudents); the continuation     *)
(* after the fetch has resolved runs uninterrupted to the response.  An    *)
(* action of the model is one such uninterrupted run.                      *)
(***************************************************************************)
EXTENDS Integers, Sequences, FiniteSets, TLC

(***************************************************************************)
(* Bounds of the model.                                                    *)
(***************************************************************************)
MaxReq == 3
MaxSeed == 1

Requests == 1..MaxReq

(***************************************************************************)
(* JavaScript values: undefined, numbers and strings, with the language's  *)
(* truthiness, strict equality and string conversion.                      *)
(***************************************************************************)
Undefined == [t |-> "undefined", n |-> 0, s |-> ""]
Num(k) == [t |-> "number", n |-> k, s |-> ""]
Str(x) == [t |-> "string", n |-> 0, s |-> x]

Falsy(v) ==
  \/ v.t = "undefined"
  \/ v.t = "number" /\ v.n = 0
  \/ v.t = "string" /\ v.s = ""

\* == in place of ===: a number and a string are compared as numbers.
LooseEquals(a, b) ==
  \/ a.t = b.t /\ a.n = b.n /\ a.s = b.s
  \/ a.t = "number" /\ b.t = "string" /\ ToString(a.n) = b.s
  \/ a.t = "string" /\ b.t = "number" /\ a.s = ToString(b.n)

StrictEquals(a, b) == a.t = b.t /\ a.n = b.n /\ a.s = b.s

JsToString(v) ==
  CASE v.t = "undefined" -> "undefined"
    [] v.t = "number" -> ToString(v.n)
    [] v.t = "string" -> v.s

(***************************************************************************)
(* The remote API (jsonplaceholder /users) and the request inputs.         *)
(***************************************************************************)
UserIds == {1, 42}
UserNames == {"Leanne"}
Users == [id : UserIds, name : UserNames]

SeqsUpTo(S, n) == UNION {[1..k -> S] : k \in 0..n}

SeedLists == SeqsUpTo(Users, MaxSeed)

\* Request bodies: {}, one property absent, one property falsy ('' or 0),
\* and the valid ones, with a number and with a string as the id.
Bodies ==
  {[name |-> Undefined, matriculationNumber |-> Undefined],
   [name |-> Str("Tina"), matriculationNumber |-> Undefined],
   [name |-> Undefined, matriculationNumber |-> Num(42)],
   [name |-> Str(""), matriculationNumber |-> Num(42)],
   [name |-> Str("Tina"), matriculationNumber |-> Num(0)],
   [name |-> Str("Tina"), matriculationNumber |-> Str("")],
   [name |-> Str("Tina"), matriculationNumber |-> Num(42)],
   [name |-> Str("Tina"), matriculationNumber |-> Str("42")]}

MatrNrs == {Num(1), Num(42)}

NoBody == [name |-> Undefined, matriculationNumber |-> Undefined]

VARIABLES
  remoteUsers,     \* the list the remote API answers with
  cachedStudents,  \* StudentsService._cachedStudents
  req,             \* the requests: position, inputs and response of each
  nStarted,        \* number of requests that have arrived
  fetchCount,      \* number of remote fetches started
  added,           \* students whose addStudent has resolved, in that order
  installedBy,     \* the request that last assigned _cachedStudents, or 0
  client           \* the browser page of public/main.js

vars ==
  <<remoteUsers, cachedStudents, req, nStarted, fetchCount, added,
    installedBy, client>>

(***************************************************************************)
(* _cachedStudents is undefined until it is assigned an array.             *)
(***************************************************************************)
NotCached == [defined |-> FALSE, arr |-> <<>>]
Cached(a) == [defined |-> TRUE, arr |-> a]

\* The page before its form is submitted.
IdleClient == [pc |-> "idle", post |-> 0, get |-> 0, html |-> <<>>]

IdleReq ==
  [pc |-> "idle", kind |-> "none", student |-> NoBody, matrNr |-> Undefined,
   fetched |-> FALSE, status |-> 0, location |-> "", body |-> "",
   list |-> <<>>, found |-> <<>>, pushed |-> 0]

(***************************************************************************)
(* _fetchStudents: maps each remote user to a student.                     *)
(***************************************************************************)
FetchStudents(users) ==
  [i \in 1..Len(users) |->
     [name |-> Str(users[i].name), matriculationNumber |-> Num(users[i].id)]]

\* A find that keeps the last match in place of the first.
ArrayFindLast(students, matrNr) ==
  LET hits == {i \in 1..Len(students) :
                 students[i].matriculationNumber = matrNr}
  IN IF hits = {} THEN <<>>
     ELSE <<students[CHOOSE i \in hits : \A j \in hits : i >= j]>>

(***************************************************************************)
(* Array.prototype.find with the predicate of StudentsService.find: the    *)
(* first student whose matriculationNumber === matrNr, <<>> for undefined. *)
(***************************************************************************)
ArrayFind(students, matrNr) ==
  LET hits == {i \in 1..Len(students) :
                 StrictEquals(students[i].matriculationNumber, matrNr)}
  IN IF hits = {} THEN <<>>
     ELSE <<students[CHOOSE i \in hits : \A j \in hits : i <= j]>>

\* A validation that forgets the matriculationNumber.
NotAValidStudentNameOnly(student) == Falsy(student.name)

(***************************************************************************)
(* The validation of _safeAddStudent.                                      *)
(***************************************************************************)
NotAValidStudent(student) ==
  Falsy(student.name) \/ Falsy(student.matriculationNumber)

\* A Location header built from the wrong property.
LocationOfName(student) == "/students/" \o JsToString(student.name)

(***************************************************************************)
(* The Location header built by StudentsController.create.                 *)
(***************************************************************************)
LocationOf(student) == "/students/" \o JsToString(student.matriculationNumber)

\* A test that takes an empty array for a missing cache.
NeedsFetchWhenEmpty(cache) == ~cache.defined \/ cache.arr = <<>>

\* A test that is always true: every call fetches.
NeedsFetchAlways(cache) == TRUE

(***************************************************************************)
(* `!this._cachedStudents`, the test of _getStudents and _safeAddStudent.  *)
(***************************************************************************)
NeedsFetch(cache) == ~cache.defined

\* concat in place of push: the array itself is left as it was.
PushConcat(arr, student) == arr

\* unshift in place of push: the student is put in front.
PushUnshift(arr, student) == <<student>> \o arr

(***************************************************************************)
(* Array.prototype.push: appends, and returns the new length.              *)
(***************************************************************************)
Push(arr, student) == Append(arr, student)

\* The parameter defaulting to false.
FetchIfEmptyOff == FALSE

(***************************************************************************)
(* The default of the parameter fetchIfEmpty of _safeAddStudent;           *)
(* addStudent passes no second argument.                                   *)
(***************************************************************************)
FetchIfEmptyDefault == TRUE

\* A read that hands out the cache with splice(0), which empties it.
GetStudentsEnterSplice(cache) ==
  IF NeedsFetch(cache)
    THEN [step |-> "await", cache |-> cache]
    ELSE [step |-> "return", cache |-> Cached(<<>>)]

(***************************************************************************)
(* _getStudents up to its await: "await" when the fetch is started,        *)
(* "return" when the cache is returned as it is.                           *)
(***************************************************************************)
GetStudentsEnter(cache) ==
  IF NeedsFetch(cache)
    THEN [step |-> "await", cache |-> cache]
    ELSE [step |-> "return", cache |-> cache]

(***************************************************************************)
(* _getStudents after its await: the fetched array becomes the cache.      *)
(***************************************************************************)
GetStudentsResume(cache, fetchedArr) == Cached(fetchedArr)

\* A _safeAddStudent that pushes to a populated cache before it validates.
SafeAddStudentPushFirst(cache, student, fetchIfEmpty) ==
  IF NeedsFetch(cache)
    THEN IF NotAValidStudent(student)
           THEN [step |-> "throw", cache |-> cache]
           ELSE IF fetchIfEmpty
             THEN [step |-> "await", cache |-> cache]
             ELSE [step |-> "return", cache |-> Cached(Push(<<>>, student))]
    ELSE IF NotAValidStudent(student)
           THEN [step |-> "throw", cache |-> Cached(Push(cache.arr, student))]
           ELSE [step |-> "return", cache |-> Cached(Push(cache.arr, student))]

\* A _safeAddStudent that fills the cache before it validates.
SafeAddStudentFetchFirst(cache, student, fetchIfEmpty) ==
  IF NeedsFetch(cache) /\ fetchIfEmpty
    THEN [step |-> "await", cache |-> cache]
    ELSE IF NotAValidStudent(student)
      THEN [step |-> "throw", cache |-> cache]
      ELSE [step |-> "return", cache |-> Cached(Push(cache.arr, student))]

(***************************************************************************)
(* _safeAddStudent up to its await: "throw" for an invalid student,        *)
(* "await" when the fetch is started, "return" when the student was        *)
(* pushed.                                                                 *)
(***************************************************************************)
SafeAddStudentEnter(cache, student, fetchIfEmpty) ==
  IF NotAValidStudent(student)
    THEN [step |-> "throw", cache |-> cache]
    ELSE IF NeedsFetch(cache)
      THEN IF fetchIfEmpty
             THEN [step |-> "await", cache |-> cache]
             ELSE [step |-> "return", cache |-> Cached(Push(<<>>, student))]
      ELSE [step |-> "return", cache |-> Cached(Push(cache.arr, student))]

\* A continuation that pushes to what the cache held before the fetch.
SafeAddStudentResumeNoSeed(cache, fetchedArr, student) ==
  Cached(Push(cache.arr, student))

\* A continuation that installs the fetched array and leaves the push to
\* a later turn of the event loop.
SafeAddStudentResumeInstallOnly(cache, fetchedArr, student) ==
  Cached(fetchedArr)

(***************************************************************************)
(* _safeAddStudent after its await: the fetched array becomes the cache    *)
(* and the student is pushed to it, with no await in between.              *)
(***************************************************************************)
SafeAddStudentResume(cache, fetchedArr, student) ==
  Cached(Push(fetchedArr, student))

Init ==
  /\ remoteUsers \in SeedLists
  /\ cachedStudents = NotCached
  /\ req = [r \in Requests |-> IdleReq]
  /\ nStarted = 0
  /\ fetchCount = 0
  /\ added = <<>>
  /\ installedBy = 0
  /\ client = IdleClient

\* Requests arrive in the order of their numbers.
Arrives(r) == req[r].pc = "idle" /\ r = nStarted + 1

(***************************************************************************)
(* GET /students: StudentsController.findAll -> StudentsService.findAll    *)
(* -> _getStudents, up to the await of the fetch or to the response.       *)
(***************************************************************************)
FindAllStart(r) ==
  /\ Arrives(r)
  /\ nStarted' = nStarted + 1
  /\ LET out == GetStudentsEnter(cachedStudents) IN
       /\ IF out.step = "await"
            THEN /\ req' = [req EXCEPT ![r] = [@ EXCEPT !.pc = "fetching",
                               !.kind = "findAll", !.fetched = TRUE]]
                 /\ fetchCount' = fetchCount + 1
            ELSE /\ req' = [req EXCEPT ![r] = [@ EXCEPT !.pc = "done",
                               !.kind = "findAll", !.status = 200,
                               !.list = out.cache.arr]]
                 /\ fetchCount' = fetchCount
       /\ cachedStudents' = out.cache
  /\ UNCHANGED <<remoteUsers, added, installedBy>>

(***************************************************************************)
(* GET /students/:matriculationNumber: StudentsController.find ->          *)
(* StudentsService.find -> _getStudents.                                   *)
(***************************************************************************)
FindStart(r, matrNr) ==
  /\ Arrives(r)
  /\ nStarted' = nStarted + 1
  /\ LET out == GetStudentsEnter(cachedStudents) IN
       /\ IF out.step = "await"
            THEN /\ req' = [req EXCEPT ![r] = [@ EXCEPT !.pc = "fetching",
                               !.kind = "find", !.matrNr = matrNr,
                               !.fetched = TRUE]]
                 /\ fetchCount' = fetchCount + 1
            ELSE /\ req' = [req EXCEPT ![r] = [@ EXCEPT !.pc = "done",
                               !.kind = "find", !.matrNr = matrNr,
                               !.status = 200,
                               !.found = ArrayFind(out.cache.arr, matrNr)]]
                 /\ fetchCount' = fetchCount
       /\ cachedStudents' = out.cache
  /\ UNCHANGED <<remoteUsers, added, installedBy>>

(***************************************************************************)
(* POST /students: StudentsController.create -> StudentsService.addStudent *)
(* -> _safeAddStudent(student).  A thrown HttpException is answered with   *)
(* its status 400 and its error; otherwise the handler appends the         *)
(* Location header and sends 'OK' with the status 201 of @HttpCode.        *)
(***************************************************************************)
CreateStart(r, student) ==
  /\ Arrives(r)
  /\ nStarted' = nStarted + 1
  /\ LET out == SafeAddStudentEnter(cachedStudents, student,
                                    FetchIfEmptyDefault) IN
       /\ cachedStudents' = out.cache
       /\ installedBy' =
            IF NeedsFetch(cachedStudents) /\ out.step = "return"
              THEN r ELSE installedBy
       /\ CASE out.step = "throw" ->
                 /\ req' = [req EXCEPT ![r] = [@ EXCEPT !.pc = "done",
                               !.kind = "create", !.student = student,
                               !.status = 400,
                               !.body = "Not a valid student!"]]
                 /\ UNCHANGED <<fetchCount, added>>
            [] out.step = "await" ->
                 /\ req' = [req EXCEPT ![r] = [@ EXCEPT !.pc = "fetching",
                               !.kind = "create", !.student = student,
                               !.fetched = TRUE]]
                 /\ fetchCount' = fetchCount + 1
                 /\ added' = added
            [] out.step = "return" ->
                 /\ req' = [req EXCEPT ![r] = [@ EXCEPT !.pc = "done",
                               !.kind = "create", !.student = student,
                               !.status = 201,
                               !.location = LocationOf(student),
                               !.body = "OK",
                               !.pushed = Len(out.cache.arr)]]
                 /\ added' = Append(added, student)
                 /\ fetchCount' = fetchCount
  /\ UNCHANGED remoteUsers

(***************************************************************************)
(* The fetch awaited by request r resolves and the handler continues to    *)
(* its response.  _getStudents and _safeAddStudent both assign the fetched *)
(* array to _cachedStudents, whatever it holds by then.                    *)
(***************************************************************************)
FetchResolve(r) ==
  /\ req[r].pc = "fetching"
  /\ LET fetchedArr == FetchStudents(remoteUsers) IN
       CASE req[r].kind = "findAll" ->
              /\ cachedStudents' = GetStudentsResume(cachedStudents, fetchedArr)
              /\ req' = [req EXCEPT ![r] = [@ EXCEPT !.pc = "done",
                            !.status = 200, !.list = cachedStudents'.arr]]
              /\ added' = added
         [] req[r].kind = "find" ->
              /\ cachedStudents' = GetStudentsResume(cachedStudents, fetchedArr)
              /\ req' = [req EXCEPT ![r] = [@ EXCEPT !.pc = "done",
                            !.status = 200,
                            !.found = ArrayFind(cachedStudents'.arr,
                                                req[r].matrNr)]]
              /\ added' = added
         [] req[r].kind = "create" ->
              /\ cachedStudents' = SafeAddStudentResume(cachedStudents,
                                       fetchedArr, req[r].student)
              /\ added' = Append(added, req[r].student)
              /\ req' = [req EXCEPT ![r] = [@ EXCEPT !.pc = "done",
                            !.status = 201,
                            !.location = LocationOf(req[r].student),
                            !.body = "OK",
                            !.pushed = Len(cachedStudents'.arr)]]
  /\ installedBy' = r
  /\ UNCHANGED <<remoteUsers, nStarted, fetchCount>>

(***************************************************************************)
(* The requests of clients other than the page: the page stays as it is.   *)
(***************************************************************************)
Next ==
  \/ \E r \in Requests : FindAllStart(r) /\ UNCHANGED client
  \/ \E r \in Requests, m \in MatrNrs : FindStart(r, m) /\ UNCHANGED client
  \/ \E r \in Requests, s \in Bodies : CreateStart(r, s) /\ UNCHANGED client
  \/ \E r \in Requests : FetchResolve(r) /\ UNCHANGED client

Spec == Init /\ [][Next]_vars

(***************************************************************************)
(* Requests one after another: a request arrives only when no earlier one  *)
(* is still being handled.                                                 *)
(***************************************************************************)
NoneInFlight == \A r \in Requests : req[r].pc # "fetching"

NextSeq ==
  \/ \E r \in Requests :
       NoneInFlight /\ FindAllStart(r) /\ UNCHANGED client
  \/ \E r \in Requests, m \in MatrNrs :
       NoneInFlight /\ FindStart(r, m) /\ UNCHANGED client
  \/ \E r \in Requests, s \in Bodies :
       NoneInFlight /\ CreateStart(r, s) /\ UNCHANGED client
  \/ \E r \in Requests : FetchResolve(r) /\ UNCHANGED client

SpecSeq == Init /\ [][NextSeq]_vars

(***************************************************************************)
(* A failing remote fetch.  The promise of _fetchStudents rejects, the     *)
(* await throws and the assignment to _cachedStudents is not made; no      *)
(* caller catches, so the handler fails and the request is answered with   *)
(* the server error 500 in place of its own response.                      *)
(***************************************************************************)
\* A _getStudents that catches the failure and caches an empty list.
GetStudentsRejectCachesEmpty(cache) == Cached(<<>>)

\* _getStudents when its await throws: the cache is left as it is.
GetStudentsReject(cache) == cache

\* _safeAddStudent when its await throws: nothing is assigned or pushed.
SafeAddStudentReject(cache, student) == cache

FetchReject(r) ==
  /\ req[r].pc = "fetching"
  /\ cachedStudents' =
       IF req[r].kind = "create"
         THEN SafeAddStudentReject(cachedStudents, req[r].student)
         ELSE GetStudentsReject(cachedStudents)
  /\ req' = [req EXCEPT ![r] = [@ EXCEPT !.pc = "done", !.status = 500]]
  /\ UNCHANGED <<remoteUsers, nStarted, fetchCount, added, installedBy>>

NextFail ==
  \/ \E r \in Requests : FindAllStart(r) /\ UNCHANGED client
  \/ \E r \in Requests, m \in MatrNrs : FindStart(r, m) /\ UNCHANGED client
  \/ \E r \in Requests, s \in Bodies : CreateStart(r, s) /\ UNCHANGED client
  \/ \E r \in Requests : FetchResolve(r) /\ UNCHANGED client
  \/ \E r \in Requests : FetchReject(r) /\ UNCHANGED client

SpecFail == Init /\ [][NextFail]_vars

(***************************************************************************)
(* The page of public/main.js.  Submitting the form posts its fields as    *)
(* JSON; FormData gives every field as a string.  When the POST is         *)
(* answered the page requests /students/html (renderStudents, which calls  *)
(* findAll), and puts the answer into the list.                            *)
(***************************************************************************)
FormNames == {"", "Tina"}
FormIds == {"", "42"}

\* The body built by the submit handler from the fields of the form.
FormObject(name, id) == [name |-> Str(name), matriculationNumber |-> Str(id)]

\* fetch(...).then(updateStudents) without the then: called at once.
PostSettledAtOnce(r) == TRUE

\* The promise of fetch is fulfilled by the answer, whatever its status.
PostSettled(r) == req[r].pc = "done"

ClientSubmit(r, name, id) ==
  /\ client.pc = "idle"
  /\ CreateStart(r, FormObject(name, id))
  /\ client' = [client EXCEPT !.pc = "posting", !.post = r]

ClientUpdateStudents(r) ==
  /\ client.pc = "posting"
  /\ PostSettled(client.post)
  /\ FindAllStart(r)
  /\ client' = [client EXCEPT !.pc = "refreshing", !.get = r]

ClientRender ==
  /\ client.pc = "refreshing"
  /\ req[client.get].pc = "done"
  /\ client' = [client EXCEPT !.pc = "shown", !.html = req[client.get].list]
  /\ UNCHANGED <<remoteUsers, cachedStudents, req, nStarted, fetchCount,
                 added, installedBy>>

NextClient ==
  \/ \E r \in Requests : FindAllStart(r) /\ UNCHANGED client
  \/ \E r \in Requests, m \in MatrNrs : FindStart(r, m) /\ UNCHANGED client
  \/ \E r \in Requests, s \in Bodies : CreateStart(r, s) /\ UNCHANGED client
  \/ \E r \in Requests : FetchResolve(r) /\ UNCHANGED client
  \/ \E r \in Requests, name \in FormNames, id \in FormIds :
       ClientSubmit(r, name, id)
  \/ \E r \in Requests : ClientUpdateStudents(r)
  \/ ClientRender

SpecClient == Init /\ [][NextClient]_vars

TypeOK ==
  /\ remoteUsers \in SeedLists
  /\ cachedStudents.defined \in BOOLEAN
  /\ nStarted \in 0..MaxReq
  /\ fetchCount \in 0..MaxReq
  /\ Len(added) <= MaxReq
(***************************************************************************)
(* Definitions used by the properties.                                     *)
(***************************************************************************)
Range(f) == {f[i] : i \in DOMAIN f}

\* The seed: the students the remote list stands for, in its order.
ExpectedSeed ==
  [i \in 1..Len(remoteUsers) |->
     [name |-> [t |-> "string", n |-> 0, s |-> remoteUsers[i].name],
      matriculationNumber |->
        [t |-> "number", n |-> remoteUsers[i].id, s |-> ""]]]

\* A property of a body that is absent, the empty string or 0.
MissingOrFalsy(v) == v \in {Undefined, Num(0), Str("")}

ValidBody(student) ==
  ~MissingOrFalsy(student.name) /\ ~MissingOrFalsy(student.matriculationNumber)

IsRead(r) == req[r].kind \in {"findAll", "find"}
IsDone(r) == req[r].pc = "done"
IsCreated(r) == req[r].kind = "create" /\ req[r].status = 201
IsRejected(r) == req[r].kind = "create" /\ req[r].status = 400

\* No valid add has been made (rejected ones may have been).
NoAddMade == \A r \in Requests : req[r].kind = "create" => req[r].status = 400

(***************************************************************************)
(* C1: with requests one after another and no add made, every findAll      *)
(* returns exactly the seed list, and the remote fetch is made exactly     *)
(* once however many reads are made, for every seed list (the empty one    *)
(* too).                                                                   *)
(***************************************************************************)
C1_SeedFetchedOnce ==
  NoAddMade =>
    /\ \A r \in Requests :
         req[r].kind = "findAll" /\ IsDone(r) => req[r].list = ExpectedSeed
    /\ fetchCount <= 1
    /\ (\E r \in Requests : IsRead(r)) => fetchCount = 1

C1_Witness ==
  /\ NoAddMade
  /\ remoteUsers = <<>>
  /\ \E r, q \in Requests :
       /\ r < q
       /\ req[r].kind = "findAll" /\ IsDone(r)
       /\ req[q].kind = "findAll" /\ IsDone(q)
  /\ fetchCount = 1

(***************************************************************************)
(* C2: reads that start while the cache is unpopulated start at most one   *)
(* remote fetch between them.                                              *)
(***************************************************************************)
C2_SingleFlight ==
  Cardinality({r \in Requests : IsRead(r) /\ req[r].fetched}) <= 1

(***************************************************************************)
(* C3: a student whose addStudent has completed is in the store in every   *)
(* later state, under every interleaving of requests.                      *)
(***************************************************************************)
C3_AddedStays ==
  \A i \in 1..Len(added) :
    cachedStudents.defined /\ added[i] \in Range(cachedStudents.arr)

(***************************************************************************)
(* C4: with requests one after another, every findAll started after a      *)
(* successful addStudent of s returns a list that includes s.              *)
(***************************************************************************)
C4_ListIncludesAdded ==
  \A r, q \in Requests :
    (r < q /\ IsCreated(r) /\ req[q].kind = "findAll" /\ IsDone(q))
      => req[r].student \in Range(req[q].list)

C4_Witness ==
  \E r, q \in Requests :
    /\ r < q /\ IsCreated(r) /\ req[q].kind = "findAll" /\ IsDone(q)
    /\ Len(req[q].list) > 1

(***************************************************************************)
(* C5: with requests one after another, a find(i) after a successful       *)
(* addStudent of s with id i returns s itself, for every seed list (also   *)
(* one that already holds a record with id i).                             *)
(***************************************************************************)
C5_FindReturnsAdded ==
  \A r, q \in Requests :
    (/\ r < q /\ IsCreated(r) /\ req[q].kind = "find" /\ IsDone(q)
     /\ req[q].matrNr = req[r].student.matriculationNumber)
      => req[q].found = <<req[r].student>>

(***************************************************************************)
(* C6: addStudent is answered with the 400 error 'Not a valid student!'    *)
(* exactly when name or id is missing or falsy, and with no validation     *)
(* error for every other payload.                                          *)
(***************************************************************************)
C6_RejectedIffInvalid ==
  \A r \in Requests :
    req[r].kind = "create" =>
      /\ ~ValidBody(req[r].student) <=> req[r].status = 400
      /\ req[r].status = 400 <=> req[r].body = "Not a valid student!"

C6_Witness ==
  \E r, q \in Requests :
    /\ IsRejected(r) /\ req[r].student.name = Str("Tina")
    /\ req[q].kind = "create" /\ req[q].pc = "fetching"

(***************************************************************************)
(* C7: an addStudent rejected by validation leaves the cache as it was:    *)
(* populated or not, its contents and their order.                         *)
(***************************************************************************)
C7_RejectedAddKeepsStore ==
  [][\A r \in Requests :
       (req[r].pc = "idle" /\ req'[r].kind = "create" /\ req'[r].status = 400)
         => cachedStudents' = cachedStudents]_vars

C7_Witness ==
  \E r, q \in Requests :
    /\ q < r /\ IsDone(q) /\ IsRejected(r)
    /\ cachedStudents.defined /\ Len(cachedStudents.arr) > 0
    /\ \A p \in Requests : req[p].pc # "fetching"

ExpectedLocation(id) ==
  CASE id = Num(42) -> "/students/42"
    [] id = Str("42") -> "/students/42"
    [] OTHER -> "/students/?"

C10_CreateResponse ==
  [][\A r \in Requests :
       (req'[r].kind = "create" /\ req'[r].pc = "done" /\ req[r].pc # "done")
         => IF ValidBody(req'[r].student)
              THEN /\ req'[r].status = 201
                   /\ req'[r].location =
                        ExpectedLocation(req'[r].student.matriculationNumber)
                   /\ cachedStudents'.defined
                   /\ req'[r].student \in Range(cachedStudents'.arr)
              ELSE /\ req'[r].status = 400
                   /\ req'[r].location = ""]_vars

C10_Witness ==
  \E r, q \in Requests :
    /\ IsCreated(r) /\ req[r].location = "/students/42"
    /\ req[r].student.matriculationNumber = Str("42")
    /\ IsRejected(q) /\ req[q].location = ""

\* The step in which request r gets its answer.
Answered(r) == req[r].pc # "done" /\ req'[r].pc = "done"

\* The step in which request r arrives.
Arriving(r) == req[r].pc = "idle" /\ req'[r].pc # "idle"

(***************************************************************************)
(* C11: find(id) returns a student of the store whose id equals id when    *)
(* there is one, the first such in the order of the store, and returns     *)
(* undefined, with no error, when there is none.                           *)
(***************************************************************************)
C11_FindFirstMatch ==
  [][\A r \in Requests :
       (Answered(r) /\ req'[r].kind = "find")
         => LET arr == cachedStudents'.arr
                hits == {j \in 1..Len(arr) :
                           arr[j].matriculationNumber = req'[r].matrNr}
            IN /\ req'[r].status = 200
               /\ IF hits = {}
                    THEN req'[r].found = <<>>
                    ELSE \E j \in hits :
                           /\ \A k \in hits : j <= k
                           /\ req'[r].found = <<arr[j]>>]_vars

C11_Witness ==
  \E r \in Requests :
    /\ req[r].kind = "find" /\ IsDone(r)
    /\ Len(req[r].found) = 1
    /\ req[r].found[1] = cachedStudents.arr[1]
    /\ \E j \in 2..Len(cachedStudents.arr) :
         /\ cachedStudents.arr[j].matriculationNumber = req[r].matrNr
         /\ cachedStudents.arr[j] # cachedStudents.arr[1]

(***************************************************************************)
(* C12: ids are unique: no two records of the store have the same id, for  *)
(* any sequence of findAll, find and addStudent calls, given a seed list   *)
(* with unique ids.                                                        *)
(***************************************************************************)
C12_UniqueIds ==
  (\A i, j \in 1..Len(remoteUsers) :
     i # j => remoteUsers[i].id # remoteUsers[j].id)
    => \A i, j \in 1..Len(cachedStudents.arr) :
         i # j => cachedStudents.arr[i].matriculationNumber
                    # cachedStudents.arr[j].matriculationNumber

(***************************************************************************)
(* C13: once the cache is populated it is never unpopulated again, and no  *)
(* request that arrives from then on starts a remote fetch, under every    *)
(* interleaving of requests.                                               *)
(***************************************************************************)
C13_CachedForLifetime ==
  [][cachedStudents.defined
       => cachedStudents'.defined /\ fetchCount' = fetchCount]_vars

C13_Witness ==
  /\ cachedStudents.defined
  /\ \E r, q \in Requests :
       /\ r < q /\ IsDone(r) /\ req[r].fetched
       /\ IsCreated(q) /\ ~req[q].fetched
  /\ fetchCount = 1

(***************************************************************************)
(* C14: a failed remote fetch is not cached: the operation that awaited it *)
(* fails without a result, the cache is left as it was (unpopulated stays  *)
(* unpopulated), the student of a failed addStudent is not stored, and an  *)
(* operation that then arrives at an unpopulated cache starts a new fetch. *)
(***************************************************************************)
C14_FailedFetchNotCached ==
  [][\A r \in Requests :
       /\ (req[r].pc = "fetching" /\ req'[r].status = 500)
            => /\ req'[r].pc = "done"
               /\ cachedStudents' = cachedStudents
               /\ added' = added
               /\ req'[r].list = <<>> /\ req'[r].found = <<>>
               /\ req'[r].location = ""
       /\ (/\ Arriving(r) /\ ~cachedStudents.defined
           /\ \E q \in Requests : req[q].status = 500
           /\ req'[r].status # 400)
            => /\ req'[r].pc = "fetching"
               /\ fetchCount' = fetchCount + 1]_vars

C14_Witness ==
  /\ req[1].kind = "create" /\ req[1].status = 500
  /\ req[2].kind = "findAll" /\ req[2].status = 200 /\ req[2].fetched
  /\ fetchCount = 2
  /\ Len(remoteUsers) > 0
  /\ cachedStudents.arr = ExpectedSeed

(***************************************************************************)
(* C15: a read leaves a populated store as it was: findAll and find start  *)
(* no remote fetch and the store has the same contents in the same order   *)
(* after the call.                                                         *)
(***************************************************************************)
C15_ReadKeepsStore ==
  [][\A r \in Requests :
       (/\ Arriving(r) /\ req'[r].kind \in {"findAll", "find"}
        /\ cachedStudents.defined)
         => /\ fetchCount' = fetchCount
            /\ cachedStudents' = cachedStudents
            /\ req'[r].pc = "done"]_vars

C15_Witness ==
  \E r, q \in Requests :
    /\ r # q
    /\ req[r].kind = "findAll" /\ IsDone(r) /\ ~req[r].fetched
    /\ req[q].kind = "find" /\ IsDone(q) /\ ~req[q].fetched
    /\ Len(cachedStudents.arr) > 1

(***************************************************************************)
(* C16: validation comes before the fetch: an addStudent with an invalid   *)
(* payload starts no remote fetch, also when the cache is unpopulated.     *)
(***************************************************************************)
C16_InvalidAddFetchesNothing ==
  [][\A r \in Requests :
       (/\ Arriving(r) /\ req'[r].kind = "create"
        /\ ~ValidBody(req'[r].student))
         => /\ fetchCount' = fetchCount
            /\ ~req'[r].fetched
            /\ req'[r].pc = "done"]_vars

C16_Witness ==
  /\ ~cachedStudents.defined
  /\ fetchCount = 0
  /\ nStarted = MaxReq
  /\ \A r \in Requests : IsRejected(r)

(***************************************************************************)
(* C17: with requests one after another the store is the seed list in the  *)
(* fetched order followed by the added students in the order their adds    *)
(* completed; a successful addStudent lengthens the store by exactly one   *)
(* and resolves to the new length.                                         *)
(***************************************************************************)
C17_SeedThenAdded ==
  [][/\ cachedStudents'.defined
          => cachedStudents'.arr = ExpectedSeed \o added'
     /\ ~cachedStudents'.defined => added' = <<>>
     /\ \A r \in Requests :
          (Answered(r) /\ req'[r].status = 201)
            => /\ Len(cachedStudents'.arr) =
                    1 + (IF cachedStudents.defined
                           THEN Len(cachedStudents.arr)
                           ELSE Len(remoteUsers))
               /\ req'[r].pushed = Len(cachedStudents'.arr)]_vars

C17_Witness ==
  /\ Len(remoteUsers) > 0
  /\ Len(added) = 2 /\ added[1] # added[2]
  /\ cachedStudents.arr = ExpectedSeed \o added
  /\ \E r \in Requests : IsCreated(r) /\ req[r].pushed = Len(remoteUsers) + 2

(***************************************************************************)
(* C18: in addStudent the fetched seed is installed and the student is     *)
(* appended in one step: no state, hence no other request, has the cache   *)
(* as populated by that add's fetch without the added student in it.       *)
(***************************************************************************)
C18_InstallAndAppendTogether ==
  \A r \in Requests :
    (installedBy = r /\ req[r].kind = "create")
      => /\ cachedStudents.defined
         /\ Len(cachedStudents.arr) > Len(remoteUsers)
         /\ cachedStudents.arr[Len(remoteUsers) + 1] = req[r].student

C18_Witness ==
  \E r, q \in Requests :
    /\ installedBy = r /\ IsCreated(r) /\ req[r].fetched
    /\ r < q /\ req[q].kind = "findAll" /\ IsDone(q) /\ ~req[q].fetched
    /\ req[r].student \in Range(req[q].list)

(***************************************************************************)
(* C19: find matches ids by strict equality of type and value: a student   *)
(* stored with the string id "42", as the form of the page submits it, is  *)
(* not returned by find(42) with the number of the URL, although findAll   *)
(* lists it.                                                               *)
(***************************************************************************)
C19_StringIdNotFound ==
  [][/\ client'.post # 0
          => req'[client'.post].student.matriculationNumber.t = "string"
     /\ \A r \in Requests :
          (/\ Answered(r) /\ req'[r].kind = "find"
           /\ req'[r].matrNr = Num(42)
           /\ \A j \in 1..Len(cachedStudents'.arr) :
                cachedStudents'.arr[j].matriculationNumber.t = "string")
            => req'[r].found = <<>>
     /\ \A r \in Requests :
          (Answered(r) /\ req'[r].kind = "findAll")
            => req'[r].list = cachedStudents'.arr]_vars

C19_Witness ==
  /\ client.pc = "shown"
  /\ IsCreated(client.post)
  /\ req[client.post].student = [name |-> Str("Tina"),
                                 matriculationNumber |-> Str("42")]
  /\ req[client.post].student \in Range(client.html)
  /\ \E r \in Requests :
       /\ r > client.post
       /\ req[r].kind = "find" /\ IsDone(r) /\ req[r].matrNr = Num(42)
       /\ req[r].found = <<>>

(***************************************************************************)
(* C20: the page requests /students/html only after the answer to its      *)
(* POST /students has arrived, and it does so after a 201 and after a 400  *)
(* alike; after a successful submit handled alone the list shown contains  *)
(* the submitted student.                                                  *)
(***************************************************************************)
C20_RefreshAfterPost ==
  [][/\ (client.pc = "posting" /\ client'.pc = "refreshing")
          => /\ req[client.post].pc = "done"
             /\ req[client.post].status \in {201, 400}
             /\ client'.get > client.post
     /\ (/\ client'.pc = "posting" /\ req'[client'.post].pc = "done"
         /\ nStarted' < MaxReq)
          => (ENABLED (\E r \in Requests : ClientUpdateStudents(r)))'
     /\ (/\ client'.pc = "shown" /\ nStarted' = 2
         /\ req'[client'.post].status = 201)
          => req'[client'.post].student \in Range(client'.html)]_vars

C20_Witness ==
  /\ client.pc = "shown" /\ nStarted = 2
  /\ req[client.post].status = 201
  /\ Len(client.html) = 2
  /\ client.html[2] = req[client.post].student
====
